---- MODULE Spec2Model ----
(***************************************************************************)
(* DictationService.run of escucha (src/escucha/app.py): the polling loop  *)
(* that turns key transitions of one input device into record /            *)
(* transcribe / paste utterances, together with the capture subprocess,    *)
(* the temporary audio file and the callbacks it drives.                   *)
(*                                                                         *)
(* A capture session is identified by a number: the n-th call of           *)
(* start_recording returns process handle n and file path n (tempfile      *)
(* hands out a fresh name on every call).                                  *)
(***************************************************************************)
EXTENDS Integers, Sequences, FiniteSets, TLC

\* ---------------------------------------------------------------- bounds
\* Number of events the device produces in one run.
MaxEvents == 3
\* Number of input devices list_devices() returns.
MaxDevices == 2
\* Number of presses of the Start and Stop buttons of the GUI.
MaxPresses == 4

\* ------------------------------------------------------------- constants
EV_KEY == 1
key_code == 464

\* An input event. busy is not part of the event: it records that the event
\* reached the device while run() was inside transcribe / paste_text.
Ev(t, c, v) == [type |-> t, code |-> c, value |-> v, busy |-> FALSE]

\* Press and release of the configured key.
KeyEvents == {Ev(EV_KEY, key_code, 1), Ev(EV_KEY, key_code, 0)}

\* Auto-repeat of the configured key, another key going down, and an event
\* of another type that happens to carry the same code and value 1.
NoiseEvents == {Ev(EV_KEY, key_code, 2), Ev(EV_KEY, 30, 1), Ev(4, key_code, 1)}

\* What the transcription gateway can return.
Texts == {"", "hello world"}

Methods == {"xdotool", "wtype", "ydotool"}

\* Values of the clipboard_paste setting.
ClipboardSettings == {"auto", "OFF"}

\* Exit statuses of the successive external commands of one paste_text call.
ExitStatuses == [1..4 -> {0, 1}]

VARIABLES
    pc,              \* position of run(): "loop" "select" "read" "events" "transcribe" "done"
    stop_event,      \* the shared stop signal
    recording,       \* local of run()
    proc,            \* local of run(): handle of the last started capture process, 0 is None
    wav_path,        \* local of run(): path of the last temporary file, 0 is None
    devq,            \* events queued by the device, not yet read
    batch,           \* events returned by device.read() and not yet handled
    procs,           \* capture subprocesses: alive flag and signals received
    files,           \* temporary files: "exists" or "deleted"
    trace,           \* callbacks emitted and external calls made, in order
    paste_method,    \* self.paste_method
    clipboard_paste, \* settings.clipboard_paste
    io,              \* device operations performed after the stop signal / after a device error
    produced,        \* number of events the device has produced
    call,            \* the last call of a helper function made on its own: name, arguments, result
    worker,          \* gui.py: the nonlocal worker, an index of threads, 0 is None
    threads,         \* gui.py: position in run() of every worker thread started
    presses          \* gui.py: the buttons pressed, in order

vars == <<pc, stop_event, recording, proc, wav_path, devq, batch, procs, files,
          trace, paste_method, clipboard_paste, io, produced, call,
          worker, threads, presses>>

\* The variables of the GUI, besides the stop signal.
guiVars == <<worker, threads, presses>>

\* The variables of run().
runVars == <<pc, stop_event, recording, proc, wav_path, devq, batch, procs, files,
             trace, paste_method, clipboard_paste, io, produced>>

\* One entry of the trace.
E(op, id, msg) == [op |-> op, id |-> id, msg |-> msg]

Status(m) == E("status", 0, m)
ErrorCb(m) == E("error", 0, m)

Min(a, b) == IF a < b THEN a ELSE b


\* ---------------------------------------------------------------- strings
\* A string whose characters matter is a sequence of one-character strings.

\* str.lower()
LowerChar(c) == CASE c = "A" -> "a"
              [] c = "B" -> "b"
              [] c = "C" -> "c"
              [] c = "D" -> "d"
              [] c = "E" -> "e"
              [] c = "F" -> "f"
              [] c = "G" -> "g"
              [] c = "H" -> "h"
              [] c = "I" -> "i"
              [] c = "J" -> "j"
              [] c = "K" -> "k"
              [] c = "L" -> "l"
              [] c = "M" -> "m"
              [] c = "N" -> "n"
              [] c = "O" -> "o"
              [] c = "P" -> "p"
              [] c = "Q" -> "q"
              [] c = "R" -> "r"
              [] c = "S" -> "s"
              [] c = "T" -> "t"
              [] c = "U" -> "u"
              [] c = "V" -> "v"
              [] c = "W" -> "w"
              [] c = "X" -> "x"
              [] c = "Y" -> "y"
              [] c = "Z" -> "z"
              [] OTHER -> c

LowerStr(s) == [i \in DOMAIN s |-> LowerChar(s[i])]

\* str.replace(" ", "")
RemoveSpaces(s) == SelectSeq(s, LAMBDA c : c # " ")

\* sub in s
Contains(sub, s) ==
    \E i \in 0..(Len(s) - Len(sub)) : SubSeq(s, i + 1, i + Len(sub)) = sub

StrAuto == <<"a", "u", "t", "o">>
StrCtrlV == <<"c", "t", "r", "l", "+", "v">>
StrCtrlShiftV == <<"c", "t", "r", "l", "+", "s", "h", "i", "f", "t", "+", "v">>

\* Values of the paste_hotkey setting.
Hotkeys ==
    {<<"A", "u", "t", "o">>,
     <<>>,
     <<"C", "T", "R", "L", "+", "V">>,
     <<"c", "t", "r", "l", "+", "s", "h", "i", "f", "t", "+", "v">>,
     <<"C", "t", "r", "l", " ", "+", " ", "S", "h", "i", "f", "t", " ", "+", " ", "V">>,
     <<"C", "T", "R", "L", "+", "S", "H", "I", "F", "T", "+", "V">>,
     <<"c", "t", "r", "l", "+", "s", "h", "i", "f", "t", "+", "v", "\t">>,
     <<" ", "c", "t", "r", "l", "+", "v", " ">>,
     <<"c", "t", "r", "l", "+", "a", "l", "t", "+", "v">>,
     <<"s", "h", "i", "f", "t", "+", "c", "t", "r", "l", "+", "v">>}

\* resolve_paste_hotkey without lower().
resolve_paste_hotkeyNoLower(paste_hotkey) ==
    LET combo == RemoveSpaces(paste_hotkey) IN
    IF combo \notin {StrAuto, <<>>, StrCtrlV, StrCtrlShiftV} THEN StrCtrlV
    ELSE IF combo \in {StrAuto, <<>>} THEN StrCtrlV
    ELSE combo

resolve_paste_hotkey(paste_hotkey) ==
    LET combo == RemoveSpaces(LowerStr(paste_hotkey)) IN
    IF combo \notin {StrAuto, <<>>, StrCtrlV, StrCtrlShiftV} THEN StrCtrlV
    ELSE IF combo \in {StrAuto, <<>>} THEN StrCtrlV
    ELSE combo

\* ------------------------------------------------------- pure functions

\* str.lower() on the values of the clipboard_paste setting.
Lower(s) == CASE s = "OFF" -> "off"
              [] s = "Off" -> "off"
              [] s = "AUTO" -> "auto"
              [] OTHER -> s

\* stop_recording without the test of proc.poll().
stop_recordingNoPoll(ps, p, in_wait) ==
    IF ps[p].alive /\ ~in_wait
    THEN [ps EXCEPT ![p] = [alive |-> TRUE, sigs |-> @.sigs \o <<"SIGINT", "SIGTERM">>]]
    ELSE [ps EXCEPT ![p] = [alive |-> FALSE, sigs |-> Append(@.sigs, "SIGINT")]]

\* stop_recording(proc): nothing on a process that already exited; else
\* SIGINT, wait up to 2 s, and terminate() when the wait timed out.
\* in_wait: whether the process exits within the wait.
stop_recording(ps, p, in_wait) ==
    IF ~ps[p].alive THEN ps
    ELSE IF in_wait
         THEN [ps EXCEPT ![p] = [alive |-> FALSE, sigs |-> Append(@.sigs, "SIGINT")]]
         ELSE [ps EXCEPT ![p] = [alive |-> TRUE,
                                 sigs |-> @.sigs \o <<"SIGINT", "SIGTERM">>]]

\* The YDOTOOL_SOCKET environment: sock.env is the value in os.environ
\* ("unset" when the variable is absent), sock.system and sock.user tell
\* whether /run/ydotoold.sock and /run/user/<uid>/.ydotool_socket exist.
Sockets == [env : {"unset", "", "/tmp/ydotool.sock"}, system : BOOLEAN, user : BOOLEAN]

\* The environment run() is modelled in: no socket anywhere.
NoSocket == [env |-> "unset", system |-> FALSE, user |-> FALSE]

\* ydotool_env with the per-user socket looked up before the system-wide one.
ydotool_envUserFirst(sock) ==
    IF sock.env # "unset" THEN sock.env
    ELSE IF sock.user THEN "/run/user/<uid>/.ydotool_socket"
    ELSE IF sock.system THEN "/run/ydotoold.sock"
    ELSE "unset"

\* The value of YDOTOOL_SOCKET in the env passed to ydotool.
ydotool_env(sock) ==
    IF sock.env # "unset" THEN sock.env
    ELSE IF sock.system THEN "/run/ydotoold.sock"
    ELSE IF sock.user THEN "/run/user/<uid>/.ydotool_socket"
    ELSE "unset"

\* One external command: what is run, the YDOTOOL_SOCKET it runs with, and
\* the key sequence of "ydotool key".
Cmd(c, env, keys) == [cmd |-> c, env |-> env, keys |-> keys]

\* The key sequence of the paste hotkey.
PasteKeys(paste_hotkey) ==
    IF resolve_paste_hotkey(paste_hotkey) = StrCtrlShiftV
    THEN <<"29:1", "42:1", "47:1", "47:0", "42:0", "29:0">>
    ELSE <<"29:1", "47:1", "47:0", "29:0">>

\* The xdotool branch of paste_text.
paste_xdotool(sock) ==
    [raised |-> FALSE, calls |-> <<Cmd("xdotool type", sock.env, <<>>)>>]

\* paste_wtype with the clipboard step tried before the standard-input step.
paste_wtypeClipboardSecond(has_wl_copy, rc, sock) ==
    LET type == Cmd("wtype type", sock.env, <<>>)
        stdin == Cmd("wtype stdin", sock.env, <<>>)
        copy == Cmd("wl-copy", sock.env, <<>>)
        key == Cmd("wtype key", sock.env, <<>>)
    IN  IF rc[1] = 0 THEN [raised |-> FALSE, calls |-> <<type>>]
        ELSE IF has_wl_copy /\ rc[2] = 0 /\ rc[3] = 0
        THEN [raised |-> FALSE, calls |-> <<type, copy, key>>]
        ELSE [raised |-> rc[4] # 0, calls |-> <<type, copy, key, stdin>>]

\* The wtype branch of paste_text.
paste_wtype(has_wl_copy, rc, sock) ==
    LET type == Cmd("wtype type", sock.env, <<>>)
        stdin == Cmd("wtype stdin", sock.env, <<>>)
        copy == Cmd("wl-copy", sock.env, <<>>)
        key == Cmd("wtype key", sock.env, <<>>)
    IN  IF rc[1] = 0 THEN [raised |-> FALSE, calls |-> <<type>>]
        ELSE IF rc[2] = 0 THEN [raised |-> FALSE, calls |-> <<type, stdin>>]
        ELSE IF has_wl_copy
        THEN IF rc[3] = 0
             THEN [raised |-> rc[4] # 0, calls |-> <<type, stdin, copy, key>>]
             ELSE [raised |-> TRUE, calls |-> <<type, stdin, copy>>]
        ELSE [raised |-> TRUE, calls |-> <<type, stdin>>]

\* paste_ydotool that raises when the clipboard step failed, without the
\* keystream step.
paste_ydotoolNoFallback(paste_hotkey, clip, has_wl_copy, rc, sock) ==
    LET env == ydotool_env(sock)
        copy == Cmd("wl-copy", sock.env, <<>>)
        key == Cmd("ydotool key", env, PasteKeys(paste_hotkey))
        type == Cmd("ydotool type", env, <<>>)
    IN  IF Lower(clip) # "off" /\ has_wl_copy
        THEN IF rc[1] = 0
             THEN [raised |-> rc[2] # 0, calls |-> <<copy, key>>]
             ELSE [raised |-> TRUE, calls |-> <<copy>>]
        ELSE [raised |-> rc[1] # 0, calls |-> <<type>>]

\* The ydotool branch of paste_text.
paste_ydotool(paste_hotkey, clip, has_wl_copy, rc, sock) ==
    LET env == ydotool_env(sock)
        copy == Cmd("wl-copy", sock.env, <<>>)
        key == Cmd("ydotool key", env, PasteKeys(paste_hotkey))
        type == Cmd("ydotool type", env, <<>>)
    IN  IF Lower(clip) # "off" /\ has_wl_copy
        THEN IF rc[1] = 0
             THEN IF rc[2] = 0
                  THEN [raised |-> FALSE, calls |-> <<copy, key>>]
                  ELSE [raised |-> rc[3] # 0, calls |-> <<copy, key, type>>]
             ELSE [raised |-> rc[2] # 0, calls |-> <<copy, type>>]
        ELSE [raised |-> rc[1] # 0, calls |-> <<type>>]

\* paste_text without "if not text: return".
paste_textNoEmptyCheck(text, method, paste_hotkey, clip, has_wl_copy, rc, sock) ==
    IF method = "xdotool" THEN paste_xdotool(sock)
    ELSE IF method = "wtype" THEN paste_wtype(has_wl_copy, rc, sock)
    ELSE IF method = "ydotool" THEN paste_ydotool(paste_hotkey, clip, has_wl_copy, rc, sock)
    ELSE [raised |-> TRUE, calls |-> <<>>]

\* paste_text: whether it raises, and the external commands it runs, given
\* the exit statuses rc of the commands in the order they are run.
paste_text(text, method, paste_hotkey, clip, has_wl_copy, rc, sock) ==
    IF text = "" THEN [raised |-> FALSE, calls |-> <<>>]
    ELSE IF method = "xdotool" THEN paste_xdotool(sock)
    ELSE IF method = "wtype" THEN paste_wtype(has_wl_copy, rc, sock)
    ELSE IF method = "ydotool" THEN paste_ydotool(paste_hotkey, clip, has_wl_copy, rc, sock)
    ELSE [raised |-> TRUE, calls |-> <<>>]

\* bool(os.environ.get(name)): the variable is set and not empty.
Truthy(v) == v \notin {"unset", ""}

\* pick_paste_method with wtype preferred to ydotool under Wayland.
pick_paste_methodWtypeFirst(preferred, wayland_display, display, installed) ==
    IF preferred \in {"xdotool", "wtype", "ydotool"} THEN preferred
    ELSE IF Truthy(wayland_display) /\ "wtype" \in installed THEN "wtype"
    ELSE IF Truthy(wayland_display) /\ "ydotool" \in installed THEN "ydotool"
    ELSE IF Truthy(display) /\ "xdotool" \in installed THEN "xdotool"
    ELSE IF "ydotool" \in installed THEN "ydotool"
    ELSE IF "wtype" \in installed THEN "wtype"
    ELSE IF "xdotool" \in installed THEN "xdotool"
    ELSE "RuntimeError"

\* pick_paste_method: the tool, or "RuntimeError" when it raises. installed
\* is the set of tools which() finds.
pick_paste_method(preferred, wayland_display, display, installed) ==
    IF preferred \in {"xdotool", "wtype", "ydotool"} THEN preferred
    ELSE IF Truthy(wayland_display) /\ "ydotool" \in installed THEN "ydotool"
    ELSE IF Truthy(wayland_display) /\ "wtype" \in installed THEN "wtype"
    ELSE IF Truthy(display) /\ "xdotool" \in installed THEN "xdotool"
    ELSE IF "ydotool" \in installed THEN "ydotool"
    ELSE IF "wtype" \in installed THEN "wtype"
    ELSE IF "xdotool" \in installed THEN "xdotool"
    ELSE "RuntimeError"

\* The input devices a machine can have: name and the key codes declared.
DevicePool ==
    {[name |-> <<"U", "S", "B", " ", "M", "o", "u", "s", "e">>, keys |-> {}],
     [name |-> <<"E", "L", "A", "N", " ", "T", "o", "u", "c", "h", "P", "a", "d">>, keys |-> {}],
     [name |-> <<"M", "o", "u", "s", "e", " ", "K", "e", "y", "s">>, keys |-> {key_code}],
     [name |-> <<"A", "T", " ", "K", "e", "y", "b", "o", "a", "r", "d">>, keys |-> {key_code, 30}],
     [name |-> <<"U", "S", "B", " ", "K", "e", "y", "b", "o", "a", "r", "d">>, keys |-> {30}]}

\* list_devices(): up to MaxDevices devices, in the order of their paths.
DeviceLists == UNION {[1..n -> DevicePool] : n \in 0..MaxDevices}

\* if "mouse" in name or "touchpad" in name, with name = dev.name.lower()
IsPointer(name) ==
    \/ Contains(<<"m", "o", "u", "s", "e">>, LowerStr(name))
    \/ Contains(<<"t", "o", "u", "c", "h", "p", "a", "d">>, LowerStr(name))

\* pick_keyboard_device: the index in devices of the device returned, or 0
\* when it raises. An explicit device_path is the index of the device to open.
pick_keyboard_device(kc, device_path, devices) ==
    IF device_path # 0
    THEN IF device_path \in DOMAIN devices THEN device_path ELSE 0
    ELSE LET declaring == {i \in DOMAIN devices :
                              ~IsPointer(devices[i].name) /\ kc \in devices[i].keys}
         IN  IF declaring # {}
             THEN CHOOSE i \in declaring : \A j \in declaring : i <= j
             ELSE IF devices # <<>> THEN 1
             ELSE 0

\* IsConfiguredKey without the test of event.code.
IsConfiguredKeyAnyCode(ev) == ev.type = EV_KEY

\* The two filters at the head of the event loop.
IsConfiguredKey(ev) == ev.type = EV_KEY /\ ev.code = key_code

\* StartGuard without "and not recording".
StartGuardAnyPress(ev, rec) == ev.value = 1

\* The guards of the two branches of the event loop.
StartGuard(ev, rec) == ev.value = 1 /\ ~rec
StopGuard(ev, rec) == ev.value = 0 /\ rec

\* LoopGuard as "while True".
LoopGuardAlways(stop) == TRUE

\* The test of the while loop.
LoopGuard(stop) == ~stop

\* if wav_path and os.path.exists(wav_path): os.unlink(wav_path)
UnlinkFiles(fs, path) ==
    IF path # 0 /\ fs[path] = "exists" THEN [fs EXCEPT ![path] = "deleted"] ELSE fs
UnlinkTrace(fs, path) ==
    IF path # 0 /\ fs[path] = "exists" THEN <<E("unlink", path, "")>> ELSE <<>>

\* Where the event loop continues after one event.
AfterEvent(b) == IF b = <<>> THEN "loop" ELSE "events"

Init ==
    /\ pc = "loop"
    /\ stop_event = FALSE
    /\ recording = FALSE
    /\ proc = 0
    /\ wav_path = 0
    /\ devq = <<>>
    /\ batch = <<>>
    /\ procs = <<>>
    /\ files = <<>>
    /\ trace = <<Status("ready")>>
    /\ paste_method \in Methods
    /\ clipboard_paste \in ClipboardSettings
    /\ io = [selects |-> 0, reads |-> 0, afterError |-> 0]
    /\ produced = 0
    /\ call = [fn |-> "none"]
    /\ worker = 0
    /\ threads = <<>>
    /\ presses = <<>>

\* ------------------------------------------------------------ environment

\* The device produces an event.
DeviceEvent ==
    /\ pc # "done"
    /\ produced < MaxEvents
    /\ \E e \in KeyEvents \cup NoiseEvents :
          devq' = Append(devq, [e EXCEPT !.busy = (pc = "transcribe")])
    /\ produced' = produced + 1
    /\ UNCHANGED call
    /\ UNCHANGED guiVars
    /\ UNCHANGED <<pc, stop_event, recording, proc, wav_path, batch, procs, files,
                   trace, paste_method, clipboard_paste, io>>

\* The owner of the stop signal sets it (gui.py stop_service / on_close).
SetStop ==
    /\ pc # "done"
    /\ ~stop_event
    /\ stop_event' = TRUE
    /\ UNCHANGED call
    /\ UNCHANGED guiVars
    /\ UNCHANGED <<pc, recording, proc, wav_path, devq, batch, procs, files,
                   trace, paste_method, clipboard_paste, io, produced>>

\* A capture subprocess exits: on its own (no capture device, a full disk),
\* or after the SIGTERM that stop_recording did not wait for.
ProcExit ==
    /\ \E p \in DOMAIN procs :
          /\ procs[p].alive
          /\ procs' = [procs EXCEPT ![p].alive = FALSE]
    /\ UNCHANGED call
    /\ UNCHANGED guiVars
    /\ UNCHANGED <<pc, stop_event, recording, proc, wav_path, devq, batch, files,
                   trace, paste_method, clipboard_paste, io, produced>>

\* ------------------------------------------------------------------ run()

\* The device operations counted in io: those made while the stop signal is
\* set, and those made after a device error was reported.
DeviceErrorReported ==
    \E i \in DOMAIN trace :
        /\ trace[i].op = "error"
        /\ trace[i].msg \in {"Input device error", "Input read error"}

CountIo(field) ==
    [io EXCEPT ![field] = IF stop_event THEN Min(@ + 1, 2) ELSE @,
               !.afterError = IF DeviceErrorReported THEN Min(@ + 1, 2) ELSE @]

\* ExitRun without the clean-up after the loop.
ExitRunNoCleanup(tr) ==
    /\ pc' = "done"
    /\ trace' = tr
    /\ UNCHANGED <<procs, files>>

\* ExitRun without the unlink of the file of the active session.
ExitRunNoUnlink(tr) ==
    /\ pc' = "done"
    /\ IF recording /\ proc # 0
       THEN /\ \E in_wait \in BOOLEAN : procs' = stop_recording(procs, proc, in_wait)
            /\ trace' = Append(tr, E("stop_recording", proc, ""))
            /\ UNCHANGED files
       ELSE /\ trace' = tr
            /\ UNCHANGED <<procs, files>>

\* The code after the while loop: stop and clean up an active session, return.
\* tr is the trace up to the end of the loop.
ExitRun(tr) ==
    /\ pc' = "done"
    /\ IF recording /\ proc # 0
       THEN /\ \E in_wait \in BOOLEAN : procs' = stop_recording(procs, proc, in_wait)
            /\ files' = UnlinkFiles(files, wav_path)
            /\ trace' = tr \o <<E("stop_recording", proc, "")>> \o UnlinkTrace(files, wav_path)
       ELSE /\ trace' = tr
            /\ UNCHANGED <<procs, files>>

\* while not stop_event.is_set()
LoopTest ==
    /\ pc = "loop"
    /\ IF LoopGuard(stop_event)
       THEN /\ pc' = "select"
            /\ UNCHANGED <<procs, files, trace>>
       ELSE ExitRun(trace)
    /\ UNCHANGED call
    /\ UNCHANGED guiVars
    /\ UNCHANGED <<stop_event, recording, proc, wav_path, devq, batch,
                   paste_method, clipboard_paste, io, produced>>

\* select.select([fd], [], [], 0.2) returns: readable, or empty after the timeout.
Select ==
    /\ pc = "select"
    /\ pc' = IF devq # <<>> THEN "read" ELSE "loop"
    /\ io' = CountIo("selects")
    /\ UNCHANGED call
    /\ UNCHANGED guiVars
    /\ UNCHANGED <<stop_event, recording, proc, wav_path, devq, batch, procs, files,
                   trace, paste_method, clipboard_paste, produced>>

\* SelectError with "continue" in place of "break".
SelectErrorContinues ==
    /\ pc = "select"
    /\ io' = CountIo("selects")
    /\ trace' = Append(trace, ErrorCb("Input device error"))
    /\ pc' = "loop"
    /\ UNCHANGED call
    /\ UNCHANGED guiVars
    /\ UNCHANGED <<stop_event, recording, proc, wav_path, devq, batch, procs, files,
                   paste_method, clipboard_paste, produced>>

\* select raises OSError.
SelectError ==
    /\ pc = "select"
    /\ io' = CountIo("selects")
    /\ ExitRun(Append(trace, ErrorCb("Input device error")))
    /\ UNCHANGED call
    /\ UNCHANGED guiVars
    /\ UNCHANGED <<stop_event, recording, proc, wav_path, devq, batch,
                   paste_method, clipboard_paste, produced>>

\* events = self.device.read()
Read ==
    /\ pc = "read"
    /\ batch' = devq
    /\ devq' = <<>>
    /\ pc' = "events"
    /\ io' = CountIo("reads")
    /\ UNCHANGED call
    /\ UNCHANGED guiVars
    /\ UNCHANGED <<stop_event, recording, proc, wav_path, procs, files,
                   trace, paste_method, clipboard_paste, produced>>

\* device.read() raises OSError.
ReadError ==
    /\ pc = "read"
    /\ io' = CountIo("reads")
    /\ ExitRun(Append(trace, ErrorCb("Input read error")))
    /\ UNCHANGED call
    /\ UNCHANGED guiVars
    /\ UNCHANGED <<stop_event, recording, proc, wav_path, devq, batch,
                   paste_method, clipboard_paste, produced>>

\* An event that takes neither branch of the event loop.
IgnoreEvent ==
    /\ pc = "events"
    /\ batch # <<>>
    /\ LET ev == Head(batch) IN
         \/ ~IsConfiguredKey(ev)
         \/ ~StartGuard(ev, recording) /\ ~StopGuard(ev, recording)
    /\ batch' = Tail(batch)
    /\ pc' = AfterEvent(Tail(batch))
    /\ UNCHANGED call
    /\ UNCHANGED guiVars
    /\ UNCHANGED <<stop_event, recording, proc, wav_path, devq, procs, files,
                   trace, paste_method, clipboard_paste, io, produced>>

\* if event.value == 1 and not recording: start_recording()
KeyDown ==
    /\ pc = "events"
    /\ batch # <<>>
    /\ IsConfiguredKey(Head(batch))
    /\ StartGuard(Head(batch), recording)
    /\ LET id == Len(procs) + 1 IN
         /\ procs' = Append(procs, [alive |-> TRUE, sigs |-> <<>>])
         /\ files' = Append(files, "exists")
         /\ proc' = id
         /\ wav_path' = id
         /\ trace' = trace \o <<E("start_recording", id, ""), Status("recording")>>
    /\ recording' = TRUE
    /\ batch' = Tail(batch)
    /\ pc' = AfterEvent(Tail(batch))
    /\ UNCHANGED call
    /\ UNCHANGED guiVars
    /\ UNCHANGED <<stop_event, devq, paste_method, clipboard_paste, io, produced>>

\* KeyUp without the call of stop_recording.
KeyUpNoStop ==
    /\ pc = "events"
    /\ batch # <<>>
    /\ IsConfiguredKey(Head(batch))
    /\ ~StartGuard(Head(batch), recording)
    /\ StopGuard(Head(batch), recording)
    /\ trace' = Append(trace, Status("transcribing"))
    /\ batch' = Tail(batch)
    /\ pc' = "transcribe"
    /\ UNCHANGED call
    /\ UNCHANGED guiVars
    /\ UNCHANGED <<stop_event, recording, proc, wav_path, devq, procs, files,
                   paste_method, clipboard_paste, io, produced>>

\* elif event.value == 0 and recording: stop_recording(proc), status "transcribing"
KeyUp ==
    /\ pc = "events"
    /\ batch # <<>>
    /\ IsConfiguredKey(Head(batch))
    /\ ~StartGuard(Head(batch), recording)
    /\ StopGuard(Head(batch), recording)
    /\ \E in_wait \in BOOLEAN : procs' = stop_recording(procs, proc, in_wait)
    /\ trace' = trace \o <<E("stop_recording", proc, ""), Status("transcribing")>>
    /\ batch' = Tail(batch)
    /\ pc' = "transcribe"
    /\ UNCHANGED call
    /\ UNCHANGED guiVars
    /\ UNCHANGED <<stop_event, recording, proc, wav_path, devq, files,
                   paste_method, clipboard_paste, io, produced>>

\* UtteranceTrace with paste_text called before the text callback.
UtteranceTracePasteFirst(path, out) ==
    <<E("transcribe", path, "")>>
    \o (IF out.ok
        THEN <<E("returned", path, out.text), E("paste_text", 0, out.text)>>
             \o (IF out.paste.raised
                 THEN <<E("raised", path, "paste_text"), ErrorCb("Transcribe/paste error")>>
                 ELSE <<E("text", 0, out.text)>>)
        ELSE <<E("raised", path, "transcribe"), ErrorCb("Transcribe/paste error")>>)
    \o UnlinkTrace(files, path)
    \o <<Status("ready")>>

\* The try / except / finally of one utterance and the status after it, as
\* calls and callbacks. out.ok: transcribe returned out.text; out.paste: what
\* paste_text did with it.
UtteranceTrace(path, out) ==
    <<E("transcribe", path, "")>>
    \o (IF out.ok
        THEN <<E("returned", path, out.text), E("text", 0, out.text),
               E("paste_text", 0, out.text)>>
             \o (IF out.paste.raised
                 THEN <<E("raised", path, "paste_text"), ErrorCb("Transcribe/paste error")>>
                 ELSE <<>>)
        ELSE <<E("raised", path, "transcribe"), ErrorCb("Transcribe/paste error")>>)
    \o UnlinkTrace(files, path)
    \o <<Status("ready")>>

\* What transcribe and paste_text can do in one utterance.
Outcomes ==
    {[ok |-> FALSE, text |-> "", paste |-> [raised |-> FALSE, calls |-> <<>>]]}
    \cup {[ok |-> TRUE, text |-> t,
           paste |-> paste_text(t, paste_method, StrAuto, clipboard_paste, wl, rc,
                                NoSocket)] :
             t \in Texts, wl \in BOOLEAN, rc \in ExitStatuses}

Failed(out) == ~out.ok \/ out.paste.raised

\* FinishWith with the unlink at the end of the try body instead of a finally.
FinishWithUnlinkInTry(out) ==
    /\ trace' = trace \o (IF Failed(out)
                          THEN SelectSeq(UtteranceTrace(wav_path, out),
                                         LAMBDA e : e.op # "unlink")
                          ELSE UtteranceTrace(wav_path, out))
    /\ files' = IF Failed(out) THEN files ELSE UnlinkFiles(files, wav_path)
    /\ recording' = FALSE
    /\ pc' = AfterEvent(batch)

\* FinishWith without the except clause: the failure leaves run().
FinishWithNoExcept(out) ==
    /\ trace' = trace \o (IF Failed(out)
                          THEN SelectSeq(UtteranceTrace(wav_path, out),
                                         LAMBDA e : e.op \notin {"error", "status"})
                          ELSE UtteranceTrace(wav_path, out))
    /\ files' = UnlinkFiles(files, wav_path)
    /\ recording' = (recording /\ Failed(out))
    /\ pc' = IF Failed(out) THEN "done" ELSE AfterEvent(batch)

\* FinishWith without "recording = False".
FinishWithKeepsRecording(out) ==
    /\ trace' = trace \o UtteranceTrace(wav_path, out)
    /\ files' = UnlinkFiles(files, wav_path)
    /\ recording' = recording
    /\ pc' = AfterEvent(batch)

\* The utterance ends with outcome out.
FinishWith(out) ==
    /\ trace' = trace \o UtteranceTrace(wav_path, out)
    /\ files' = UnlinkFiles(files, wav_path)
    /\ recording' = FALSE
    /\ pc' = AfterEvent(batch)

\* transcribe, the text callback, paste_text, the except and finally clauses,
\* "recording = False" and the status "ready".
FinishUtterance ==
    /\ pc = "transcribe"
    /\ \E out \in Outcomes : FinishWith(out)
    /\ UNCHANGED call
    /\ UNCHANGED guiVars
    /\ UNCHANGED <<stop_event, proc, wav_path, devq, batch, procs,
                   paste_method, clipboard_paste, io, produced>>

ServiceStep ==
    \/ LoopTest
    \/ Select
    \/ SelectError
    \/ Read
    \/ ReadError
    \/ IgnoreEvent
    \/ KeyDown
    \/ KeyUp
    \/ FinishUtterance

Next ==
    \/ DeviceEvent
    \/ SetStop
    \/ ProcExit
    \/ ServiceStep

Spec == Init /\ [][Next]_vars

\* run() is a thread that keeps running; transcribe and paste_text return.
FairSpec == Spec /\ WF_vars(ServiceStep)

\* ------------------------------------------------------------ the GUI
\* The Start and Stop buttons of gui.py and the worker threads they start.
\* The handlers run on the Tk main thread, one at a time; each worker thread
\* runs DictationService.run(stop_event) on the one shared stop_event. Of
\* run() a thread keeps its position: "loop" "select" "read" "events" "done".

\* Everything the GUI and its threads leave alone.
guiFrame == <<pc, recording, proc, wav_path, devq, batch, procs, files, trace,
              paste_method, clipboard_paste, io, produced, call>>

GuiInit ==
    /\ Init
    /\ paste_method = "ydotool"
    /\ clipboard_paste = "auto"

\* WorkerIsAlive as if no thread were ever alive.
WorkerIsAliveNever(w, ths) == FALSE

\* worker and worker.is_alive()
WorkerIsAlive(w, ths) == w # 0 /\ ths[w] # "done"

\* start_service: nothing while the worker is alive; else clear the stop
\* signal, construct the service (which may raise) and start a thread on run.
StartService ==
    /\ Len(presses) < MaxPresses
    /\ presses' = Append(presses, "Start")
    /\ IF WorkerIsAlive(worker, threads)
       THEN UNCHANGED <<stop_event, worker, threads>>
       ELSE /\ stop_event' = FALSE
            /\ \E constructed \in BOOLEAN :
                  IF constructed
                  THEN /\ threads' = Append(threads, "loop")
                       /\ worker' = Len(threads) + 1
                  ELSE UNCHANGED <<worker, threads>>
    /\ UNCHANGED guiFrame

\* stop_service: stop_event.set()
StopService ==
    /\ Len(presses) < MaxPresses
    /\ presses' = Append(presses, "Stop")
    /\ stop_event' = TRUE
    /\ UNCHANGED <<worker, threads>>
    /\ UNCHANGED guiFrame

\* Thread t moves to position to.
Goto(t, to) ==
    /\ threads' = [threads EXCEPT ![t] = to]
    /\ UNCHANGED <<stop_event, worker, presses>>
    /\ UNCHANGED guiFrame

\* while not stop_event.is_set(), and the return of run() after the loop
WorkerLoopTest(t) ==
    /\ threads[t] = "loop"
    /\ Goto(t, IF LoopGuard(stop_event) THEN "select" ELSE "done")

\* select returns readable, returns empty after the timeout, or raises OSError
WorkerSelect(t) ==
    /\ threads[t] = "select"
    /\ \E to \in {"read", "loop", "done"} : Goto(t, to)

\* device.read() returns events or raises OSError
WorkerRead(t) ==
    /\ threads[t] = "read"
    /\ \E to \in {"events", "done"} : Goto(t, to)

\* the for loop over the events, utterances included
WorkerEvents(t) ==
    /\ threads[t] = "events"
    /\ Goto(t, "loop")

WorkerStep(t) ==
    \/ WorkerLoopTest(t)
    \/ WorkerSelect(t)
    \/ WorkerRead(t)
    \/ WorkerEvents(t)

WorkerSteps == \E t \in DOMAIN threads : WorkerStep(t)

GuiNext ==
    \/ StartService
    \/ StopService
    \/ WorkerSteps

GuiSpec == GuiInit /\ [][GuiNext]_vars

\* Every started thread keeps running: select has a timeout, and device.read,
\* transcribe and paste_text return.
GuiFairSpec ==
    GuiSpec /\ \A t \in 1..(MaxPresses + 1) : WF_vars(t \in DOMAIN threads /\ WorkerStep(t))

\* ------------------------------------------------- the helpers on their own
\* Each helper function applied once to arguments drawn from bounded sets;
\* call holds the arguments and what the function did.

FnInit ==
    /\ Init
    /\ paste_method = "ydotool"
    /\ clipboard_paste = "auto"

CallResolvePasteHotkey ==
    /\ call.fn = "none"
    /\ \E h \in Hotkeys :
          call' = [fn |-> "resolve_paste_hotkey", hotkey |-> h,
                   result |-> resolve_paste_hotkey(h)]
    /\ UNCHANGED runVars
    /\ UNCHANGED guiVars

\* Arguments of paste_text: a method that is no tool, more clipboard_paste
\* values, three hotkeys.
PasteMethods == Methods \cup {"xdotol"}
PasteClipboards == ClipboardSettings \cup {"off", "on"}
PasteHotkeys == {StrAuto, StrCtrlShiftV, <<"c", "t", "r", "l", "+", "a", "l", "t", "+", "v">>}

CallPasteText ==
    /\ call.fn = "none"
    /\ \E text \in Texts, method \in PasteMethods, hotkey \in PasteHotkeys,
          clip \in PasteClipboards, wl \in BOOLEAN, rc \in ExitStatuses, sock \in Sockets :
          call' = [fn |-> "paste_text", text |-> text, method |-> method,
                   hotkey |-> hotkey, clip |-> clip, wl |-> wl, rc |-> rc, sock |-> sock,
                   result |-> paste_text(text, method, hotkey, clip, wl, rc, sock)]
    /\ UNCHANGED runVars
    /\ UNCHANGED guiVars

\* Values of the paste_method setting: the sentinel, the tools, a misspelt tool.
PreferredMethods == {"auto", "xdotool", "wtype", "ydotool", "xdotol"}

CallPickPasteMethod ==
    /\ call.fn = "none"
    /\ \E preferred \in PreferredMethods, wayland \in {"unset", "", "wayland-0"},
          x11 \in {"unset", "", ":0"}, installed \in SUBSET Methods :
          call' = [fn |-> "pick_paste_method", preferred |-> preferred,
                   wayland |-> wayland, x11 |-> x11, installed |-> installed,
                   result |-> pick_paste_method(preferred, wayland, x11, installed)]
    /\ UNCHANGED runVars
    /\ UNCHANGED guiVars

\* The keyboard_device setting: 0 is "auto", n is the path of the n-th device.
CallPickKeyboardDevice ==
    /\ call.fn = "none"
    /\ \E devices \in DeviceLists, device_path \in 0..1 :
          call' = [fn |-> "pick_keyboard_device", device_path |-> device_path,
                   devices |-> devices,
                   result |-> pick_keyboard_device(key_code, device_path, devices)]
    /\ UNCHANGED runVars
    /\ UNCHANGED guiVars

FnNext ==
    \/ CallResolvePasteHotkey
    \/ CallPasteText
    \/ CallPickPasteMethod
    \/ CallPickKeyboardDevice

FnSpec == FnInit /\ [][FnNext]_vars

\* ------------------------------------------------------------ observations

\* The state of the service as the specification names it.
State ==
    IF pc = "done" THEN "stopped"
    ELSE IF pc = "transcribe" THEN "transcribing"
    ELSE IF recording THEN "recording"
    ELSE "idle"

Count(op, id) == Cardinality({i \in DOMAIN trace : trace[i].op = op /\ trace[i].id = id})
CountOp(op) == Cardinality({i \in DOMAIN trace : trace[i].op = op})

\* The i-th entry of the trace, for any i.
At(i) == IF i \in DOMAIN trace THEN trace[i] ELSE E("none", 0, "")

\* The statuses emitted so far, in order.
Statuses == SelectSeq(trace, LAMBDA e : e.op = "status")

\* The n-th status of a run that only goes through whole utterances.
CycleStatus(n) ==
    IF n = 1 THEN "ready"
    ELSE CASE (n - 2) % 3 = 0 -> "recording"
           [] (n - 2) % 3 = 1 -> "transcribing"
           [] OTHER -> "ready"

\* The event loop is about to handle a press of the configured key.
AtKeyDown ==
    /\ pc = "events"
    /\ batch # <<>>
    /\ Head(batch).type = EV_KEY
    /\ Head(batch).code = key_code
    /\ Head(batch).value = 1

\* The capture subprocesses that are alive.
Alive == {p \in DOMAIN procs : procs[p].alive}

\* The capture sessions stop_recording has not been called on.
Open == {p \in DOMAIN procs : Count("stop_recording", p) = 0}

\* ------------------------------------------------------------------ claims

\* C1: every press followed by a release of the configured key handled from
\* idle takes the service idle -> recording -> transcribing -> idle: the
\* statuses emitted are "ready" followed by repetitions of "recording",
\* "transcribing", "ready", the state agrees with the last status, and
\* start_recording and stop_recording are each called exactly once per session
\* (stop_recording not yet for the session being recorded).
C1_KeyCycle ==
    /\ \A i \in DOMAIN Statuses : Statuses[i].msg = CycleStatus(i)
    /\ State = "idle" => Statuses[Len(Statuses)].msg = "ready"
    /\ State = "recording" => Statuses[Len(Statuses)].msg = "recording"
    /\ State = "transcribing" => Statuses[Len(Statuses)].msg = "transcribing"
    /\ \A i \in DOMAIN trace :
          /\ trace[i].op = "start_recording" => At(i + 1) = Status("recording")
          /\ trace[i] = Status("transcribing") =>
                /\ At(i - 1).op = "stop_recording"
                /\ At(i - 2) = Status("recording")
                /\ At(i - 3) = E("start_recording", At(i - 1).id, "")
    /\ \A p \in DOMAIN procs :
          /\ Count("start_recording", p) = 1
          /\ Count("stop_recording", p) = IF p = proc /\ State = "recording" THEN 0 ELSE 1

\* C1 witness: one whole utterance has been handled.
C1_Witness ==
    /\ State = "idle"
    /\ Len(Statuses) = 4
    /\ Count("start_recording", 1) = 1
    /\ Count("stop_recording", 1) = 1

\* C2: once the transcribe / paste scope of an utterance has been left, its
\* temporary file is gone and was unlinked exactly once, whatever the outcome.
C2_FileDeleted ==
    \A f \in DOMAIN files :
        /\ Count("unlink", f) <= 1
        /\ Count("transcribe", f) > 0 => files[f] = "deleted" /\ Count("unlink", f) = 1

\* C2 witness: an utterance whose paste failed has left the scope.
C2_Witness ==
    \E i \in DOMAIN trace :
        /\ trace[i].op = "raised"
        /\ trace[i].msg = "paste_text"
        /\ files[trace[i].id] = "deleted"

\* C3: a press of the configured key handled while recording starts nothing:
\* no session is created and the handle and path of the session are kept.
C3_NoStartWhileRecording ==
    [][(AtKeyDown /\ recording /\ batch' = Tail(batch)) =>
          /\ proc' = proc
          /\ wav_path' = wav_path
          /\ Len(procs') = Len(procs)
          /\ Len(files') = Len(files)
          /\ trace' = trace
          /\ recording']_vars

\* C3 witness: the loop is about to handle a press while recording.
C3_Witness == AtKeyDown /\ recording /\ proc = 1

\* C4: a press of the configured key that reached the device during
\* transcribe / paste never leads to a new session.
C4_BusyPressIgnored ==
    [][(AtKeyDown /\ Head(batch).busy /\ batch' = Tail(batch)) =>
          Len(procs') = Len(procs)]_vars

\* C5: a failure of transcribe or paste_text is reported through the error
\* callback exactly once, the loop goes on, the service is idle again with
\* "ready" emitted after the error, and a later press starts a new recording.
C5_UtteranceFailureRecovered ==
    [][/\ CountOp("raised")' > CountOp("raised") =>
            /\ CountOp("error")' = CountOp("error") + 1
            /\ trace'[Len(trace')] = Status("ready")
            /\ \E i \in DOMAIN trace' :
                  /\ i > Len(trace)
                  /\ trace'[i] = ErrorCb("Transcribe/paste error")
            /\ pc' \in {"loop", "events"}
            /\ ~recording'
       /\ (CountOp("raised") > 0 /\ AtKeyDown /\ ~recording /\ batch' = Tail(batch)) =>
            /\ recording'
            /\ Len(procs') = Len(procs) + 1
            /\ trace'[Len(trace')] = Status("recording")]_vars

\* C5 witness: a recording is running after an utterance that failed.
C5_Witness == CountOp("raised") = 1 /\ recording /\ proc = 2 /\ State = "recording"

\* C6: an I/O error of select or read is reported once and ends the loop;
\* afterwards the device is not polled or read and no recording is started.
C6_DeviceErrorEndsLoop ==
    /\ [][(DeviceErrorReported' /\ ~DeviceErrorReported) =>
             /\ CountOp("error")' = CountOp("error") + 1
             /\ pc' = "done"]_vars
    /\ [][DeviceErrorReported =>
             /\ io' = io
             /\ Len(procs') = Len(procs)
             /\ CountOp("error")' = CountOp("error")]_vars
    /\ [](io.afterError = 0)

\* C6 witness: run() has returned after a device error.
C6_Witness == pc = "done" /\ DeviceErrorReported /\ ~stop_event

\* C7: when the loop is left on the stop signal while recording, run() has
\* called stop_recording on the active process and deleted the file.
C7_StopWhileRecording ==
    (pc = "done" /\ ~DeviceErrorReported /\ recording) =>
        /\ Count("stop_recording", proc) = 1
        /\ procs[proc].sigs # <<>> \/ ~procs[proc].alive
        /\ files[wav_path] = "deleted"

\* C7 witness: run() has returned on the stop signal with a recording active.
C7_Witness == pc = "done" /\ stop_event /\ ~DeviceErrorReported /\ recording

\* C8: once the stop signal is set run() returns, after at most one more
\* return of select and one more batch of events.
C8_Cancellation ==
    /\ stop_event ~> pc = "done"
    /\ [](io.selects <= 1 /\ io.reads <= 1)

\* C8 witness: run() has returned on the stop signal after one more select
\* and one more batch.
C8_Witness ==
    pc = "done" /\ stop_event /\ ~DeviceErrorReported /\ io.selects = 1 /\ io.reads = 1

\* C9 as stated: at most one capture subprocess is alive, and one is alive
\* exactly when the state is recording.
C9_AliveIffRecording ==
    /\ Cardinality(Alive) <= 1
    /\ Alive # {} <=> State = "recording"

\* C9 amended: at most one session is open (started, stop_recording not yet
\* called on it), one is open exactly when the state is recording, and a
\* subprocess that is alive is the open one or one stop_recording sent
\* SIGINT and SIGTERM to without waiting for its exit.
C9_OpenIffRecording ==
    /\ Cardinality(Open) <= 1
    /\ Open # {} <=> State = "recording"
    /\ Open # {} => Open = {proc}
    /\ \A p \in Alive : p \in Open \/ procs[p].sigs = <<"SIGINT", "SIGTERM">>

\* C9 witness: the subprocess of the open session has exited while the state
\* is recording.
C9_Witness == State = "recording" /\ Open = {proc} /\ Alive = {}

\* C10: in one cycle the gateway is called once, with the path of the cycle's
\* start_recording; when it returns a text, that text goes to the text
\* callback and then, once, to paste_text.
C10_OneTranscribeOnePaste ==
    /\ \A i \in DOMAIN trace :
          /\ trace[i].op = "transcribe" =>
                /\ At(i - 1) = Status("transcribing")
                /\ At(i - 2) = E("stop_recording", trace[i].id, "")
                /\ At(i - 4) = E("start_recording", trace[i].id, "")
          /\ trace[i].op = "returned" =>
                /\ At(i - 1) = E("transcribe", trace[i].id, "")
                /\ At(i + 1) = E("text", 0, trace[i].msg)
                /\ At(i + 2) = E("paste_text", 0, trace[i].msg)
    /\ \A f \in DOMAIN files : Count("transcribe", f) <= 1
    /\ CountOp("transcribe") = Cardinality({i \in DOMAIN Statuses : Statuses[i].msg = "transcribing"})
                                 - (IF State = "transcribing" THEN 1 ELSE 0)
    /\ CountOp("paste_text") = CountOp("returned")
    /\ CountOp("text") = CountOp("returned")

\* C10 witness: a cycle whose transcription "hello world" was pasted.
C10_Witness ==
    \E i \in DOMAIN trace :
        /\ trace[i] = E("returned", 1, "hello world")
        /\ At(i + 2) = E("paste_text", 0, "hello world")
        /\ State = "idle"

\* The values of Hotkeys that are "ctrl+shift+v" up to case and spaces.
ShiftVariants ==
    {<<"c", "t", "r", "l", "+", "s", "h", "i", "f", "t", "+", "v">>,
     <<"C", "t", "r", "l", " ", "+", " ", "S", "h", "i", "f", "t", " ", "+", " ", "V">>,
     <<"C", "T", "R", "L", "+", "S", "H", "I", "F", "T", "+", "V">>}

\* C16: resolve_paste_hotkey returns "ctrl+shift+v" exactly for the inputs that
\* are "ctrl+shift+v" up to case and spaces, "ctrl+v" for every other input,
\* and applying it to its result gives the result.
C16_HotkeyNormalised ==
    call.fn = "resolve_paste_hotkey" =>
        /\ call.hotkey \in ShiftVariants => call.result = StrCtrlShiftV
        /\ call.hotkey \notin ShiftVariants => call.result = StrCtrlV
        /\ resolve_paste_hotkey(call.result) = call.result

\* C16 witness: the spaced, capitalised shift variant has been resolved.
C16_Witness ==
    /\ call.fn = "resolve_paste_hotkey"
    /\ call.hotkey = <<"C", "t", "r", "l", " ", "+", " ", "S", "h", "i", "f", "t", " ", "+", " ", "V">>
    /\ call.result = StrCtrlShiftV

\* ---------------------------------------------------- claims on paste_text

\* The call made is paste_text with a text that is not empty.
PasteCall(method) ==
    call.fn = "paste_text" /\ call.method = method /\ call.text # ""

\* The commands of the call made, by name.
Cmds == [i \in DOMAIN call.result.calls |-> call.result.calls[i].cmd]

IsPrefix(a, b) == Len(a) <= Len(b) /\ SubSeq(b, 1, Len(a)) = a

\* C11: with ydotool, when the clipboard step fails (wl-copy or the paste
\* hotkey returns non-zero) the keystream step runs next and decides: no error
\* when it returns zero, an error when it does not. With clipboard_paste "off"
\* or without wl-copy only the keystream step runs.
C11_YdotoolFallback ==
    PasteCall("ydotool") =>
        LET rc == call.rc
            raised == call.result.raised
            clipOn == call.clip \notin {"off", "OFF"} /\ call.wl
        IN  /\ ~clipOn => Cmds = <<"ydotool type">> /\ (raised <=> rc[1] # 0)
            /\ (clipOn /\ rc[1] # 0) =>
                  Cmds = <<"wl-copy", "ydotool type">> /\ (raised <=> rc[2] # 0)
            /\ (clipOn /\ rc[1] = 0 /\ rc[2] # 0) =>
                  /\ Cmds = <<"wl-copy", "ydotool key", "ydotool type">>
                  /\ raised <=> rc[3] # 0
            /\ (clipOn /\ rc[1] = 0 /\ rc[2] = 0) =>
                  Cmds = <<"wl-copy", "ydotool key">> /\ ~raised

\* C11 witness: the paste hotkey failed and the keystream step succeeded.
C11_Witness ==
    /\ PasteCall("ydotool")
    /\ Cmds = <<"wl-copy", "ydotool key", "ydotool type">>
    /\ call.rc[2] = 1
    /\ ~call.result.raised

\* C12: for each of the three methods and a text that is not empty,
\* paste_text raises when none of the commands it ran returned zero.
C12_ExhaustedCascadeRaises ==
    (call.fn = "paste_text" /\ call.text # "" /\ call.method \in Methods
       /\ \A i \in DOMAIN call.result.calls : call.rc[i] # 0)
    => call.result.raised

\* C15: paste_text with the empty text runs no command and raises nothing,
\* whatever the method, the settings and the environment.
C15_EmptyTextNoop ==
    (call.fn = "paste_text" /\ call.text = "") =>
        call.result.calls = <<>> /\ ~call.result.raised

\* C15 witness: the empty text with a method that is no tool and commands
\* that would all fail.
C15_Witness ==
    /\ call.fn = "paste_text"
    /\ call.text = ""
    /\ call.method = "xdotol"
    /\ \A i \in DOMAIN call.rc : call.rc[i] = 1
    /\ ~call.result.raised

\* The ydotool commands of the call made.
YdotoolCalls ==
    {i \in DOMAIN call.result.calls :
        call.result.calls[i].cmd \in {"ydotool key", "ydotool type"}}

\* C17: every ydotool command of one call runs with the same socket: the
\* environment override when there is one, else the system-wide socket when
\* it exists, else the per-user socket when it exists, else none.
C17_SocketPriority ==
    PasteCall("ydotool") =>
        \A i \in YdotoolCalls :
            LET env == call.result.calls[i].env
                sock == call.sock
            IN  /\ sock.env # "unset" => env = sock.env
                /\ (sock.env = "unset" /\ sock.system) => env = "/run/ydotoold.sock"
                /\ (sock.env = "unset" /\ ~sock.system /\ sock.user) =>
                      env = "/run/user/<uid>/.ydotool_socket"
                /\ (sock.env = "unset" /\ ~sock.system /\ ~sock.user) => env = "unset"
                /\ \A j \in YdotoolCalls : call.result.calls[j].env = env

\* C17 witness: both sockets exist, no override, and the hotkey step and the
\* keystream step both ran with the system-wide socket.
C17_Witness ==
    /\ PasteCall("ydotool")
    /\ call.sock = [env |-> "unset", system |-> TRUE, user |-> TRUE]
    /\ Cmds = <<"wl-copy", "ydotool key", "ydotool type">>
    /\ call.result.calls[2].env = "/run/ydotoold.sock"
    /\ call.result.calls[3].env = "/run/ydotoold.sock"

\* C19: with wtype the commands run in the order direct type, type from
\* standard input, wl-copy, paste key; each runs only when every earlier step
\* failed (the paste key when wl-copy returned zero), nothing runs after a
\* step succeeded, and the error is raised exactly when the last applicable
\* step failed.
C19_WtypeOrder ==
    PasteCall("wtype") =>
        LET rc == call.rc
            n == Len(Cmds)
        IN  /\ IsPrefix(Cmds, <<"wtype type", "wtype stdin", "wl-copy", "wtype key">>)
            /\ n >= 1
            /\ n >= 2 <=> rc[1] # 0
            /\ n >= 3 <=> (rc[1] # 0 /\ rc[2] # 0 /\ call.wl)
            /\ n >= 4 <=> (rc[1] # 0 /\ rc[2] # 0 /\ call.wl /\ rc[3] = 0)
            /\ call.result.raised <=>
                  (rc[1] # 0 /\ rc[2] # 0 /\ ~(call.wl /\ rc[3] = 0 /\ rc[4] = 0))

\* C19 witness: the first two steps failed and the clipboard step succeeded.
C19_Witness ==
    /\ PasteCall("wtype")
    /\ Len(Cmds) = 4
    /\ ~call.result.raised

\* ------------------------------------------- claims on the other helpers

\* C13: pick_paste_method returns a configured tool as it is; otherwise under
\* Wayland ydotool when installed, else wtype when installed; else under X11
\* xdotool when installed; else the first installed of ydotool, wtype,
\* xdotool; and it raises only when no tool is installed.
C13_PickPasteMethod ==
    call.fn = "pick_paste_method" =>
        LET r == call.result
            inst == call.installed
            w == call.wayland \notin {"unset", ""}
            x == call.x11 \notin {"unset", ""}
            byWayland == w /\ inst \cap {"ydotool", "wtype"} # {}
            byX11 == ~byWayland /\ x /\ "xdotool" \in inst
        IN  /\ call.preferred \in Methods => r = call.preferred
            /\ call.preferred \notin Methods =>
                  /\ (w /\ "ydotool" \in inst) => r = "ydotool"
                  /\ (w /\ "ydotool" \notin inst /\ "wtype" \in inst) => r = "wtype"
                  /\ byX11 => r = "xdotool"
                  /\ (~byWayland /\ ~byX11) =>
                        /\ "ydotool" \in inst => r = "ydotool"
                        /\ ("ydotool" \notin inst /\ "wtype" \in inst) => r = "wtype"
                        /\ (inst = {"xdotool"}) => r = "xdotool"
                  /\ r = "RuntimeError" <=> inst = {}
                  /\ r # "RuntimeError" => r \in inst

\* C13 witness: Wayland, ydotool and wtype installed, nothing configured.
C13_Witness ==
    /\ call.fn = "pick_paste_method"
    /\ call.preferred = "auto"
    /\ call.wayland = "wayland-0"
    /\ call.installed = {"ydotool", "wtype"}
    /\ call.result = "ydotool"

\* C14: a configured method that is neither a tool nor "auto" is rejected
\* with the unknown-paste-method error when the method is resolved.
C14_UnknownMethodRejected ==
    (call.fn = "pick_paste_method" /\ call.preferred \notin Methods \cup {"auto"})
    => call.result = "ValueError"

\* The names of DevicePool that name a pointing device.
PointerNames ==
    {<<"U", "S", "B", " ", "M", "o", "u", "s", "e">>,
     <<"E", "L", "A", "N", " ", "T", "o", "u", "c", "h", "P", "a", "d">>,
     <<"M", "o", "u", "s", "e", " ", "K", "e", "y", "s">>}

\* C18: with the selector "auto" pick_keyboard_device returns no pointing
\* device: it returns the first device that is no pointing device and
\* declares the key, else the first device that is no pointing device, and
\* it raises when every device is a pointing device.
C18_NoPointerPicked ==
    (call.fn = "pick_keyboard_device" /\ call.device_path = 0) =>
        LET devs == call.devices
            r == call.result
            keyboards == {i \in DOMAIN devs : devs[i].name \notin PointerNames}
            declaring == {i \in keyboards : key_code \in devs[i].keys}
            First(S) == CHOOSE i \in S : \A j \in S : i <= j
        IN  /\ r # 0 => r \in keyboards
            /\ declaring # {} => r = First(declaring)
            /\ (declaring = {} /\ keyboards # {}) => r = First(keyboards)
            /\ keyboards = {} => r = 0

\* C20: stop_recording sends nothing to a process that already exited; to a
\* live process it sends SIGINT, and SIGTERM after it only when the process
\* is still alive when the wait ends.
C20_TwoPhaseStop ==
    [][\A p \in DOMAIN procs :
          Count("stop_recording", p)' > Count("stop_recording", p) =>
             IF ~procs[p].alive
             THEN procs'[p] = procs[p]
             ELSE \/ /\ procs'[p].sigs = Append(procs[p].sigs, "SIGINT")
                     /\ ~procs'[p].alive
                  \/ /\ procs'[p].sigs = procs[p].sigs \o <<"SIGINT", "SIGTERM">>
                     /\ procs'[p].alive]_vars

\* C20 witness: stop_recording was called on a process that outlived the wait
\* and on a process that had exited on its own.
C20_Witness ==
    /\ Len(procs) = 2
    /\ Count("stop_recording", 1) = 1
    /\ procs[1].sigs = <<"SIGINT", "SIGTERM">>
    /\ Count("stop_recording", 2) = 1
    /\ procs[2].sigs = <<>>
    /\ ~procs[2].alive

\* ------------------------------------------------- claims on run(), continued

\* An event that is no transition of the configured key in the state rec.
NoTransition(ev, rec) ==
    \/ ev.type # EV_KEY
    \/ ev.code # key_code
    \/ ev.value = 2
    \/ ev.value = 0 /\ ~rec
    \/ ev.value = 1 /\ rec

\* C21: handling an event of another type, of another key, an auto-repeat of
\* the configured key, a release while idle or a press while recording
\* changes neither the recording flag, the session handle, the file path,
\* the processes or the files, and makes no callback and no external call.
C21_NoTransitionNoEffect ==
    [][(/\ pc = "events"
        /\ batch # <<>>
        /\ batch' = Tail(batch)
        /\ NoTransition(Head(batch), recording))
       => UNCHANGED <<recording, proc, wav_path, procs, files, trace>>]_vars

\* C21 witness: three events were handled, one press started the recording
\* and the two others had no effect.
C21_Witness ==
    /\ produced = 3
    /\ devq = <<>>
    /\ batch = <<>>
    /\ pc = "loop"
    /\ recording
    /\ proc = 1
    /\ trace = <<Status("ready"), E("start_recording", 1, ""), Status("recording")>>

\* C22: when run() has returned, stop_recording was called on every capture
\* session it started and every temporary file it created is deleted.
C22_NothingLeaked ==
    pc = "done" =>
        \A p \in DOMAIN procs :
            /\ Count("stop_recording", p) >= 1
            /\ files[p] = "deleted"

\* C22 witness: a device error ended run() during the second recording.
C22_Witness ==
    /\ pc = "done"
    /\ DeviceErrorReported
    /\ recording
    /\ Len(procs) = 2
    /\ ~stop_event

\* --------------------------------------------------------- claim on the GUI

\* The worker threads that have not returned from run().
AliveThreads == {t \in DOMAIN threads : threads[t] # "done"}

\* C23: at most one worker thread is alive at a time; the stop signal is
\* never cleared, and no thread is started, while a worker thread is alive;
\* and a thread that is alive while the stop signal is set returns from run().
C23_OneWorker ==
    /\ [](Cardinality(AliveThreads) <= 1)
    /\ [][AliveThreads # {} =>
             /\ stop_event => stop_event'
             /\ Len(threads') = Len(threads)]_vars
    /\ \A t \in 1..(MaxPresses + 1) :
          (stop_event /\ t \in AliveThreads) ~> (t \in DOMAIN threads /\ threads[t] = "done")

\* C23 witness: Start, Stop, then Start again while the first worker was
\* still alive; that worker has returned and no second one was started.
C23_Witness ==
    /\ presses = <<"Start", "Stop", "Start">>
    /\ threads = <<"done">>
    /\ stop_event

====
